---- MODULE Spec2Model ----
(***************************************************************************)
(* A model of nicksenger/scheduler: the NaiveScheduler (bin packing of     *)
(* pending orders into flights) and the CsvRunner tick loop driving it.    *)
(*                                                                         *)
(* The specifications share the variables:                                 *)
(*   Spec         any sequence of queue_order / launch_flights calls on    *)
(*                one NaiveScheduler, launch times non-decreasing;         *)
(*   RunSpec      CsvRunner::run_inner over an input order list;           *)
(*   ThrottleSpec run_inner across two snapshot ticks of FastForward(200); *)
(*   DetourSpec   run_inner over orders for off-axis and unknown           *)
(*                destinations;                                            *)
(*   ScenarioSpec run_inner with the scheduler of run_with_defaults over   *)
(*                a single order;                                          *)
(*   HubSpec      run_inner, the event loop of server/src/main.rs and the  *)
(*                monitor calls of the clients, interleaved;               *)
(*   WireSpec     run_inner at any Speed and a client decoding the         *)
(*                snapshots of its monitor stream;                         *)
(*   ViewSpec     run_inner and a client that receives the snapshots,      *)
(*                advances its perceived time and draws the flights.       *)
(*                                                                         *)
(* Orders carry an "id" that the Rust values do not have: it stands for    *)
(* the identity of the moved value, so that duplication and loss of an     *)
(* order instance can be stated.  No operator of the program reads it.     *)
(***************************************************************************)
EXTENDS Integers, Sequences, FiniteSets, TLC

VARIABLES
    \* NaiveScheduler (server/src/scheduler.rs:16-31)
    num_carriers,
    max_orders_per_carrier,
    carrier_speed_mps,
    carrier_range_m,
    unfulfilled_orders,
    active_flights,
    \* CsvRunner::run_inner (server/src/runner.rs:69-171)
    pc,              \* "api" | "start" | "ticking" | "done" | "error" | "panicked"
    speed,           \* the Speed the run was given
    orders,          \* CsvRunner.orders: the input order list
    orders_iter,     \* the sorted orders not yet consumed
    first_launch_time,
    current_time,    \* the tick last handled (Spec: the last launch time)
    ticks,           \* number of iterations of the tick loop so far
    updates,         \* status_updates channel: snapshots sent so far
    result,          \* Result<usize, String> of the run
    \* the hub of main (server/src/main.rs:30-85) and its subscribers
    subscriptions,          \* the map of the scan: ids of the senders it holds
    subscriptions_channel,  \* (id, tx) pairs sent by monitor, not yet taken
    updates_taken,          \* number of snapshots the hub took from `updates`
    subscribers,            \* per monitor call, the channel it created
    \* one monitoring client (client/src/main.rs, client/src/map.rs)
    stream,                 \* the proto messages its monitor stream yielded
    latest_update,          \* Option<StatusUpdate>: <<>> or <<update>>
    perceived_time_millis,
    carrier_positions,      \* what the last view computed for the map
    \* history (not program state)
    last_event,      \* what the hub's last event saw and did, in the state
                     \* right after it (no_event after a client's step)
    registered,      \* id -> the counts of snapshots sent and taken when the
                     \* hub inserted the id
    queued,          \* ids of the orders passed to queue_order
    flown,           \* order id -> number of flights it was ever put in
    last_launch      \* what a launch_flights call saw and did, in the state
                     \* right after the call (no_launch after any other step)

vars == <<num_carriers, max_orders_per_carrier, carrier_speed_mps, carrier_range_m,
          unfulfilled_orders, active_flights, pc, speed, orders, orders_iter,
          first_launch_time, current_time, ticks, updates, result,
          subscriptions, subscriptions_channel, updates_taken, subscribers,
          stream, latest_update, perceived_time_millis, carrier_positions,
          last_event, registered, queued, flown, last_launch>>

sched_params == <<num_carriers, max_orders_per_carrier, carrier_speed_mps, carrier_range_m>>
runner_vars == <<pc, speed, orders, orders_iter, first_launch_time, ticks, updates, result>>
hub_vars == <<subscriptions, subscriptions_channel, updates_taken, subscribers,
              last_event, registered>>
client_vars == <<stream, latest_update, perceived_time_millis, carrier_positions>>

----------------------------------------------------------------------------
(* Bounds of the model *)

\* Spec: number of queue_order calls in one behaviour
MaxQueued == 2
\* Spec: launch_flights is called at multiples of this many seconds
LaunchStep == 40
\* Spec: last launch time
MaxLaunchTime == 80
\* RunSpec: length of the input order list
MaxRunOrders == 2

(* Program constants *)

NUM_RESERVE_CARRIERS == 2
MAX_UPDATES_PER_SECOND == 4
\* seconds between two launches in run_inner (`current_time % 60 == 0`)
LAUNCH_PERIOD == 60
\* CsvRunner::SECONDS_PER_DAY is 24 * 60 * 60; the simulated day is cut
\* at the second launch tick so that a whole run can be enumerated.
SECONDS_PER_DAY == 120

(* Fleets the scheduler is constructed with (arguments of NaiveScheduler::new). *)
(* With NUM_RESERVE_CARRIERS = 2, a fleet of 1 has no carrier left after the    *)
(* reserve and a fleet of 3 has one.                                            *)
FleetSizes == {1, 3}
CarrierLoads == {1, 2}

----------------------------------------------------------------------------
(* Entities: schema/src/entities.rs *)

Priority == {"Emergency", "Resupply"}

ORIGIN == [north_m |-> 0, east_m |-> 0]

\* The destination set handed to NaiveScheduler::new.  The first six points
\* lie on the north axis, so that every leg between them is a whole number
\* of metres; half and edge are off the axis, with legs that are not.
\*   close  1 m out, round trip   2 m: flown in less than a second
\*   near  31 m out, round trip  62 m
\*   far  121 m out on the other side of the origin, round trip 242 m
\*   out  180 m out, farther than carrier_range_m
\*   zero at the origin itself
\*   field 300 m out: the destination of the single-order scenario, in
\*         range of the default fleet only
\*   half  75.66 m out, and 75.66 m from edge
\*   edge 151.33 m out, farther than carrier_range_m
destinations ==
    [d \in {"close", "near", "far", "out", "zero", "field", "half", "edge"} |->
        CASE d = "close" -> [north_m |-> 1,   east_m |-> 0]
          [] d = "half"  -> [north_m |-> 75,  east_m |-> 10]
          [] d = "edge"  -> [north_m |-> 150, east_m |-> 20]
          [] d = "field" -> [north_m |-> 300, east_m |-> 0]
          [] d = "near" -> [north_m |-> 31,   east_m |-> 0]
          [] d = "far"  -> [north_m |-> -121, east_m |-> 0]
          [] d = "out"  -> [north_m |-> 180,  east_m |-> 0]
          [] d = "zero" -> [north_m |-> 0,    east_m |-> 0]]

\* the destinations orders are drawn from under Spec
DestinationName == DOMAIN destinations \ {"field", "half", "edge"}

Abs(x) == IF x < 0 THEN -x ELSE x

\* floor of the square root: `f32::sqrt(..) as u64`
RECURSIVE IsqrtBetween(_, _, _)
IsqrtBetween(n, lo, hi) ==
    IF lo = hi THEN lo
    ELSE LET mid == (lo + hi + 1) \div 2
         IN IF mid * mid <= n THEN IsqrtBetween(n, mid, hi)
            ELSE IsqrtBetween(n, lo, mid - 1)
Isqrt(n) == IsqrtBetween(n, 0, n)

\* Destination::distance_from, then the `as u64` of its callers
distance_from(self, other_north, other_east) ==
    Isqrt((Abs(self.north_m) - Abs(other_north)) * (Abs(self.north_m) - Abs(other_north))
        + (Abs(self.east_m) - Abs(other_east)) * (Abs(self.east_m) - Abs(other_east)))

distance_from_other(self, other) == distance_from(self, other.north_m, other.east_m)

\* Destination::distance_from_other as the f32 it returns, in centimetres
\* (rounded down): the precision total_distance keeps while it adds legs up
distance_from_other_cm(self, other) ==
    IsqrtBetween(10000 * ((Abs(self.north_m) - Abs(other.north_m))
                            * (Abs(self.north_m) - Abs(other.north_m))
                        + (Abs(self.east_m) - Abs(other.east_m))
                            * (Abs(self.east_m) - Abs(other.east_m))),
                 0, 46340)

Last(s) == s[Len(s)]
Front(s) == SubSeq(s, 1, Len(s) - 1)

RECURSIVE path_length(_, _)
\* the fold of Flight::total_distance over stops, from `prev`
path_length(prev, stops) ==
    IF stops = <<>> THEN 0
    ELSE distance_from_other_cm(Head(stops), prev) + path_length(Head(stops), Tail(stops))

\* Flight::total_distance: depot -> stop1 -> ... -> stopN -> depot, summed
\* as f32 and cut to whole metres by the `as u64` of its caller
total_distance(flight) ==
    path_length(ORIGIN,
        [i \in 1..Len(flight.orders) |-> destinations[flight.orders[i].destination]]
            \o <<ORIGIN>>) \div 100

\* mutant: the way back to the depot takes no time
end_time_outbound_only(flight) ==
    flight.launch_time + ((total_distance(flight) \div 2) \div carrier_speed_mps)

\* Flight::end_time
end_time(flight) ==
    flight.launch_time + (total_distance(flight) \div carrier_speed_mps)

----------------------------------------------------------------------------
(* NaiveScheduler: server/src/scheduler.rs *)

\* mutant: the carriers in flight are not subtracted
available_carriers_ignoring_flights(flights) == num_carriers

\* NaiveScheduler::available_carriers.  The usize subtraction underflows
\* when more flights are active than there are carriers; CapacityInvariant
\* shows that no reachable state has that many.
available_carriers(flights) == num_carriers - Len(flights)

\* usize::saturating_sub
saturating_sub(a, b) == IF a >= b THEN a - b ELSE 0

\* mutant: the comparison is inverted, finished flights stay and the others go
process_landings_inverted(flights, t) ==
    SelectSeq(flights, LAMBDA flight : end_time(flight) <= t)

\* mutant: a flight that ends at the very second of the call stays active
process_landings_late(flights, t) ==
    SelectSeq(flights, LAMBDA flight : end_time(flight) >= t)

\* NaiveScheduler::process_landings: the flights that stay active
process_landings(flights, t) ==
    SelectSeq(flights, LAMBDA flight : end_time(flight) > t)

\* mutant: the reserve is never held back
carriers_without_reserve(pending, flights) == available_carriers(flights)

\* mutant: the reserve is held back even when an Emergency order is pending
carriers_always_reserved(pending, flights) ==
    saturating_sub(available_carriers(flights), NUM_RESERVE_CARRIERS)

\* launch_flights, lines 105-114: carriers to pack, after the reserve
carriers_to_pack(pending, flights) ==
    IF \E i \in 1..Len(pending) : pending[i].priority = "Emergency"
    THEN available_carriers(flights)
    ELSE saturating_sub(available_carriers(flights), NUM_RESERVE_CARRIERS)

\* launch_flights, lines 116-121
empty_bins(n) == [i \in 1..n |-> [distance_allocated |-> 0, orders |-> <<>>]]

\* mutant: Resupply orders sort last, and are popped first
priority_rank_inverted(order) == IF order.priority = "Emergency" THEN 0 ELSE 1

\* the comparator of sort_unstable_by, lines 125-130, as a sort key
priority_rank(order) == IF order.priority = "Emergency" THEN 1 ELSE 0

Permutations_of(s) ==
    LET n == Len(s)
        bij == {p \in [1..n -> 1..n] : \A i, j \in 1..n : i /= j => p[i] /= p[j]}
    IN {[i \in 1..n |-> s[p[i]]] : p \in bij}

\* sort_unstable_by: any arrangement of the queue that the comparator calls
\* sorted; the order among orders of equal priority is not determined
sort_unstable_outcomes(pending) ==
    {s \in Permutations_of(pending) :
        \A i \in 1..(Len(s) - 1) : priority_rank(s[i]) <= priority_rank(s[i + 1])}

\* slice::sort_by_key (stable) with the keys given beside the elements
stable_sort_by_key(s, keys) ==
    LET n == Len(s)
        before(j, i) == keys[j] < keys[i] \/ (keys[j] = keys[i] /\ j < i)
        rank(i) == Cardinality({j \in 1..n : before(j, i)}) + 1
    IN [r \in 1..n |-> s[CHOOSE i \in 1..n : rank(i) = r]]

\* mutant: the bins are searched in the order they are in
sort_bins_skipped(bins, order) == bins

\* launch_flights, lines 144-149
sort_bins(bins, order) ==
    IF order.priority = "Emergency"
    THEN stable_sort_by_key(bins, [i \in 1..Len(bins) |-> bins[i].distance_allocated])
    ELSE stable_sort_by_key(bins, [i \in 1..Len(bins) |-> -Len(bins[i].orders)])

\* launch_flights, lines 153-159: the leg from the bin's last stop
leg_distance(bin, order) ==
    LET last_stop == IF bin.orders = <<>> THEN ORIGIN
                     ELSE destinations[Last(bin.orders).destination]
    IN distance_from_other(destinations[order.destination], last_stop)

\* mutant: the load of the bin is not tested
eligible_any_load(bin, order) ==
    leg_distance(bin, order) <= carrier_range_m - bin.distance_allocated

\* launch_flights, lines 151 and 160: the find_map predicate
eligible(bin, order) ==
    /\ Len(bin.orders) < max_orders_per_carrier
    /\ leg_distance(bin, order) <= carrier_range_m - bin.distance_allocated

\* mutant: the leg is counted out and back
place_counting_return(bin, order) ==
    [distance_allocated |-> bin.distance_allocated + 2 * leg_distance(bin, order),
     orders |-> Append(bin.orders, order)]

\* launch_flights, lines 168-169
place(bin, order) ==
    [distance_allocated |-> bin.distance_allocated + leg_distance(bin, order),
     orders |-> Append(bin.orders, order)]

RECURSIVE pack_without_pop(_, _, _)
\* mutant: the order is read off the end of the queue but not removed from it
pack_without_pop(pending, bins, examined) ==
    IF pending = <<>>
    THEN [unfulfilled_orders |-> pending, bins |-> bins,
          examined |-> examined, dropped |-> <<>>,
          panicked |-> FALSE, steps |-> <<>>]
    ELSE LET order == Last(pending)
             sorted == sort_bins(bins, order)
             fits == {i \in 1..Len(sorted) : eligible(sorted[i], order)}
         IN IF fits = {}
            THEN [unfulfilled_orders |-> pending, bins |-> sorted,
                  examined |-> Append(examined, order), dropped |-> <<>>,
                  panicked |-> FALSE, steps |-> <<>>]
            ELSE LET i == CHOOSE i \in fits : \A j \in fits : i <= j
                 IN pack_without_pop(pending,
                        [sorted EXCEPT ![i] = place(sorted[i], order)],
                        Append(examined, order))

\* launch_flights, lines 138-141: destinations.get(..).expect("destination")
known_destination(order) == order.destination \in DOMAIN destinations

\* history: one iteration of the packing loop that got as far as looking
\* for a bin: the order, the bins as sorted for it, the position of the bin
\* it went to (0: none)
pack_step(order, sorted, chosen) == [order |-> order, bins |-> sorted, chosen |-> chosen]

\* mutant: the order that fits nowhere goes back on the queue
after_unfit_requeued(rest, order) == Append(rest, order)

\* launch_flights, lines 134 and 164-166: the queue after the `break` of
\* an order that fits nowhere; the popped order is not pushed back
after_unfit(rest, order) == rest

RECURSIVE pack_dropping_unknown(_, _, _)
\* mutant: an order for an unknown destination ends the pass like an order
\* that fits nowhere
pack_dropping_unknown(pending, bins, examined) ==
    IF pending = <<>>
    THEN [unfulfilled_orders |-> pending, bins |-> bins,
          examined |-> examined, dropped |-> <<>>,
          panicked |-> FALSE, steps |-> <<>>]
    ELSE LET order == Last(pending)
             rest == Front(pending)
         IN IF ~known_destination(order)
            THEN [unfulfilled_orders |-> rest, bins |-> bins,
                  examined |-> Append(examined, order), dropped |-> <<order>>,
                  panicked |-> FALSE, steps |-> <<>>]
            ELSE
            LET sorted == sort_bins(bins, order)
                fits == {i \in 1..Len(sorted) : eligible(sorted[i], order)}
            IN IF fits = {}
               THEN [unfulfilled_orders |-> rest, bins |-> sorted,
                     examined |-> Append(examined, order), dropped |-> <<order>>,
                     panicked |-> FALSE, steps |-> <<pack_step(order, sorted, 0)>>]
               ELSE LET i == CHOOSE i \in fits : \A j \in fits : i <= j
                        after == pack_dropping_unknown(rest,
                                    [sorted EXCEPT ![i] = place(sorted[i], order)],
                                    Append(examined, order))
                    IN [after EXCEPT !.steps = <<pack_step(order, sorted, i)>> \o @]

RECURSIVE pack(_, _, _)
\* launch_flights, lines 133-170: pop orders off the end of the sorted queue
\* into the first eligible bin until the queue is empty or an order fits
\* nowhere.  `examined` collects the popped orders in pop order.  The lookup
\* of a popped order's destination panics when the name is unknown: the
\* order is off the queue and the bins are lost.
pack(pending, bins, examined) ==
    IF pending = <<>>
    THEN [unfulfilled_orders |-> pending, bins |-> bins,
          examined |-> examined, dropped |-> <<>>,
          panicked |-> FALSE, steps |-> <<>>]
    ELSE LET order == Last(pending)
             rest == Front(pending)
         IN IF ~known_destination(order)
            THEN [unfulfilled_orders |-> rest, bins |-> bins,
                  examined |-> Append(examined, order), dropped |-> <<>>,
                  panicked |-> TRUE, steps |-> <<>>]
            ELSE
            LET sorted == sort_bins(bins, order)
                fits == {i \in 1..Len(sorted) : eligible(sorted[i], order)}
            IN IF fits = {}
               THEN [unfulfilled_orders |-> after_unfit(rest, order), bins |-> sorted,
                     examined |-> Append(examined, order), dropped |-> <<order>>,
                     panicked |-> FALSE, steps |-> <<pack_step(order, sorted, 0)>>]
               ELSE LET i == CHOOSE i \in fits : \A j \in fits : i <= j
                        after == pack(rest,
                                    [sorted EXCEPT ![i] = place(sorted[i], order)],
                                    Append(examined, order))
                    IN [after EXCEPT !.steps = <<pack_step(order, sorted, i)>> \o @]

\* launch_flights, line 177: which bins become flights
bin_launches(bin) == bin.distance_allocated > 0

\* mutant: the flights keep the launch_time of Flight::default()
materialize_unstamped(bins, t) ==
    LET kept == SelectSeq(bins, bin_launches)
    IN [i \in 1..Len(kept) |-> [launch_time |-> 0, orders |-> kept[i].orders]]

\* launch_flights, lines 175-181
materialize(bins, t) ==
    LET kept == SelectSeq(bins, bin_launches)
    IN [i \in 1..Len(kept) |-> [launch_time |-> t, orders |-> kept[i].orders]]

\* Scheduler::queue_order
queue_order(pending, order) == Append(pending, order)

\* ids of the orders carried by a sequence of flights, with repetitions
RECURSIVE ids_carried(_)
ids_carried(flights) ==
    IF flights = <<>> THEN <<>>
    ELSE [i \in 1..Len(Head(flights).orders) |-> Head(flights).orders[i].id]
            \o ids_carried(Tail(flights))

times_in(ids, id) == Cardinality({i \in 1..Len(ids) : ids[i] = id})

\* history: count, per order id, the flights created with it
record_flown(bag, new_flights) ==
    LET ids == ids_carried(new_flights)
        seen == DOMAIN bag \cup {ids[i] : i \in 1..Len(ids)}
    IN [id \in seen |-> (IF id \in DOMAIN bag THEN bag[id] ELSE 0) + times_in(ids, id)]

\* Scheduler::launch_flights, the whole call
launch_flights(pending, t) ==
    LET still_active == process_landings(active_flights, t)
        n_bins == carriers_to_pack(pending, still_active)
    IN \E sorted \in sort_unstable_outcomes(pending) :
       \E packed \in {pack(sorted, empty_bins(n_bins), <<>>)} :
        LET new_flights == IF packed.panicked THEN <<>>
                           ELSE materialize(packed.bins, t)
        IN /\ unfulfilled_orders' = packed.unfulfilled_orders
           /\ active_flights' = still_active \o new_flights
           /\ flown' = record_flown(flown, new_flights)
           /\ last_launch' =
                [called |-> TRUE, time |-> t,
                 active_after_landing |-> Len(still_active),
                 emergency_pending |->
                    \E i \in 1..Len(pending) : pending[i].priority = "Emergency",
                 bins |-> n_bins,
                 returned |-> new_flights,
                 examined |-> packed.examined,
                 dropped |-> packed.dropped,
                 panicked |-> packed.panicked,
                 steps |-> packed.steps,
                 packed_bins |-> packed.bins]

no_launch ==
    [called |-> FALSE, time |-> 0, active_after_landing |-> 0,
     emergency_pending |-> FALSE, bins |-> 0, returned |-> <<>>,
     examined |-> <<>>, dropped |-> <<>>, panicked |-> FALSE,
     steps |-> <<>>, packed_bins |-> <<>>]

----------------------------------------------------------------------------
(* Speed: schema/src/runner.rs *)

RealTime == [kind |-> "RealTime", factor |-> 1]
FastForward(n) == [kind |-> "FastForward", factor |-> n]
SlowMotion(n) == [kind |-> "SlowMotion", factor |-> n]

no_result == [ok |-> FALSE, value |-> 0, error |-> ""]
Ok(n) == [ok |-> TRUE, value |-> n, error |-> ""]
Err(msg) == [ok |-> FALSE, value |-> 0, error |-> msg]

----------------------------------------------------------------------------
(* The hub: the scan over the merged event stream, server/src/main.rs *)

\* mpsc::unbounded() of monitor: what was ever sent on the channel, how
\* much of it the receiver has taken, and whether the receiver still exists
new_channel == [delivered |-> <<>>, taken |-> 0, rx_alive |-> TRUE]

\* UnboundedSender::start_send: queues the item unless the receiver is gone
start_send(chan, update) ==
    IF chan.rx_alive
    THEN [ok |-> TRUE, chan |-> [chan EXCEPT !.delivered = Append(@, update)]]
    ELSE [ok |-> FALSE, chan |-> chan]

\* mutant: only the lowest id of the map is served
fan_out_to_lowest(subs, chans, update) ==
    [id \in DOMAIN chans |->
        IF id \in subs /\ (\A other \in subs : id <= other)
        THEN start_send(chans[id], update).chan ELSE chans[id]]

\* mutant: a failed send aborts the pass for everybody
fan_out_until_failure(subs, chans, update) ==
    [id \in DOMAIN chans |->
        IF id \in subs /\ (\A other \in subs : chans[other].rx_alive)
        THEN start_send(chans[id], update).chan ELSE chans[id]]

\* Event::Update, the loop over the map: one start_send per entry
fan_out(subs, chans, update) ==
    [id \in DOMAIN chans |->
        IF id \in subs THEN start_send(chans[id], update).chan ELSE chans[id]]

\* mutant: no failed send is recorded
disconnected_none(subs, chans, update) == {}

\* Event::Update: the ids whose start_send failed with is_disconnected()
disconnected(subs, chans, update) ==
    {id \in subs : ~start_send(chans[id], update).ok}

\* mutant: a new subscriber is sent the snapshots of the run so far
new_subscription_with_replay(subs, chans, sent, id) ==
    [subscriptions |-> subs \cup {id},
     subscribers |-> [chans EXCEPT ![id].delivered = sent]]

\* Event::NewSubscription: subscriptions.insert(id, tx)
new_subscription(subs, chans, sent, id) ==
    [subscriptions |-> subs \cup {id}, subscribers |-> chans]

\* mutant: the hub takes the newest snapshot
newest_update(sent, taken) == sent[Len(sent)]

\* the item the hub takes from the updates stream: the oldest not yet taken
next_update(sent, taken) == sent[taken + 1]

no_event ==
    [kind |-> "none", update |-> <<>>, id |-> 0, map_before |-> {},
     connected_before |-> {}, removed |-> {}]

\* main.rs:30-32: an empty map, no monitor call yet
hub_new ==
    /\ subscriptions = {}
    /\ subscriptions_channel = <<>>
    /\ updates_taken = 0
    /\ subscribers = <<>>
    /\ last_event = no_event
    /\ registered = <<>>

\* Gui::new (client/src/main.rs:53-69): nothing received yet
client_new ==
    /\ stream = <<>>
    /\ latest_update = <<>>
    /\ perceived_time_millis = 0
    /\ carrier_positions = <<>>

----------------------------------------------------------------------------
(* Spec: the scheduler under any sequence of calls *)

\* NaiveScheduler::new
scheduler_new(fleets, loads) ==
    /\ num_carriers \in fleets
    /\ max_orders_per_carrier \in loads
    /\ carrier_speed_mps = 3
    /\ carrier_range_m = 150
    /\ unfulfilled_orders = <<>>
    /\ active_flights = <<>>
    /\ queued = {}
    /\ flown = <<>>
    /\ last_launch = no_launch

Init ==
    /\ scheduler_new(FleetSizes, CarrierLoads)
    /\ pc = "api"
    /\ speed = RealTime
    /\ orders = <<>>
    /\ orders_iter = <<>>
    /\ first_launch_time = 0
    /\ current_time = 0
    /\ ticks = 0
    /\ updates = <<>>
    /\ result = no_result
    /\ hub_new
    /\ client_new

LaunchTimes == {k * LaunchStep : k \in 0..(MaxLaunchTime \div LaunchStep)}

QueueOrder ==
    /\ pc = "api"
    /\ Cardinality(queued) < MaxQueued
    /\ \E d \in DestinationName, p \in Priority :
        LET order == [id |-> Cardinality(queued) + 1, time |-> current_time,
                      destination |-> d, priority |-> p]
        IN /\ unfulfilled_orders' = queue_order(unfulfilled_orders, order)
           /\ queued' = queued \cup {order.id}
    /\ last_launch' = no_launch
    /\ UNCHANGED <<sched_params, runner_vars, active_flights, current_time, flown>>
    /\ UNCHANGED hub_vars
    /\ UNCHANGED client_vars

LaunchFlights ==
    /\ pc = "api"
    /\ \E t \in LaunchTimes :
        /\ t >= current_time
        /\ current_time' = t
        /\ launch_flights(unfulfilled_orders, t)
    /\ pc' = IF last_launch'.panicked THEN "panicked" ELSE pc
    /\ UNCHANGED <<sched_params, speed, orders, orders_iter, first_launch_time,
                   ticks, updates, result, queued>>
    /\ UNCHANGED hub_vars
    /\ UNCHANGED client_vars

Next == QueueOrder \/ LaunchFlights

Spec == Init /\ [][Next]_vars

----------------------------------------------------------------------------
(* RunSpec: CsvRunner::run_inner, server/src/runner.rs *)

\* placement times of the input orders: one second before the first launch
\* tick, and on it
OrderTimes == {59, 60}

\* destinations of the input orders
RunDestinations == {"close", "near", "far", "out"}

RunOrders == [time : OrderTimes, destination : RunDestinations, priority : Priority]

\* the input lists, each order tagged with its position in the list
RunOrderLists ==
    LET lists == UNION {[1..n -> RunOrders] : n \in 0..MaxRunOrders}
    IN {[i \in 1..Len(l) |->
            [id |-> i, time |-> l[i].time, destination |-> l[i].destination,
             priority |-> l[i].priority]] : l \in lists}

\* max_orders_per_carrier of the scheduler a run is given
RunCarrierLoads == {2}

\* the speeds a run is given
RunSpeeds == {RealTime, FastForward(200), FastForward(2)}

\* run_inner, line 75: orders.sort_by_key(|order| order.time)
sort_by_time(list) == stable_sort_by_key(list, [i \in 1..Len(list) |-> list[i].time])

\* mutant: an empty list starts the clock at 0 instead of failing
first_order_time_or_zero(sorted) ==
    IF sorted = <<>> THEN [some |-> TRUE, value |-> 0]
    ELSE [some |-> TRUE, value |-> sorted[1].time]

\* run_inner, lines 76-79: orders.first().map(|order| order.time)
first_order_time(sorted) ==
    IF sorted = <<>> THEN [some |-> FALSE, value |-> 0]
    ELSE [some |-> TRUE, value |-> sorted[1].time]

\* mutant: no throttling, every speed updates each second
update_interval_of_one(s) == 1

\* run_inner, lines 131-134 (integer division, no lower bound)
update_interval_seconds(s) ==
    IF s.kind = "FastForward" THEN s.factor \div MAX_UPDATES_PER_SECOND ELSE 1

\* run_inner, lines 105-128: the event of tick t, with the order it consumes
\* from the peekable iterator
event(iter, t) ==
    IF t % LAUNCH_PERIOD = 0
    THEN IF iter /= <<>> /\ Head(iter).time = t
         THEN [kind |-> "Launch", order |-> <<Head(iter)>>, rest |-> Tail(iter)]
         ELSE [kind |-> "Launch", order |-> <<>>, rest |-> iter]
    ELSE IF iter /= <<>> /\ Head(iter).time = t
         THEN [kind |-> "Order", order |-> <<Head(iter)>>, rest |-> Tail(iter)]
         ELSE [kind |-> "Idle", order |-> <<>>, rest |-> iter]

\* the StatusUpdate of run_inner, lines 160-164
status_update(t, flights, s) == [time |-> t, flights |-> flights, speed |-> s]

\* the tick the loop handles next: (first_launch_time..=SECONDS_PER_DAY)
next_time == IF ticks = 0 THEN first_launch_time ELSE current_time + 1

\* mutant: the snapshot is taken before the event of the tick is handled
after_event_before(t) ==
    LET interval == update_interval_seconds(speed)
    IN IF interval = 0
       THEN /\ pc' = "panicked"
            /\ updates' = updates
       ELSE /\ pc' = "ticking"
            /\ updates' = IF t % interval = 0
                          THEN Append(updates, status_update(t, active_flights, speed))
                          ELSE updates

\* run_inner, lines 158-167: after the event of tick t.  `t % 0` panics.
after_event(t) ==
    LET interval == update_interval_seconds(speed)
    IN IF interval = 0
       THEN /\ pc' = "panicked"
            /\ updates' = updates
       ELSE /\ pc' = "ticking"
            /\ updates' = IF t % interval = 0
                          THEN Append(updates, status_update(t, active_flights', speed))
                          ELSE updates

RunInit ==
    /\ scheduler_new(FleetSizes, RunCarrierLoads)
    /\ pc = "start"
    /\ speed \in RunSpeeds
    /\ orders \in RunOrderLists
    /\ orders_iter = <<>>
    /\ first_launch_time = 0
    /\ current_time = 0
    /\ ticks = 0
    /\ updates = <<>>
    /\ result = no_result
    /\ hub_new
    /\ client_new

\* run_inner, lines 75-81
RunStart ==
    /\ pc = "start"
    /\ LET sorted == sort_by_time(orders)
           first == first_order_time(sorted)
       IN IF first.some
          THEN /\ pc' = "ticking"
               /\ orders_iter' = sorted
               /\ first_launch_time' = first.value
               /\ result' = result
          ELSE /\ pc' = "error"
               /\ result' = Err("No orders")
               /\ UNCHANGED <<orders_iter, first_launch_time>>
    /\ UNCHANGED <<sched_params, unfulfilled_orders, active_flights, speed, orders,
                   current_time, ticks, updates, queued, flown, last_launch>>
    /\ UNCHANGED hub_vars
    /\ UNCHANGED client_vars

\* one iteration of the loop whose event is Event::Launch
TickLaunch ==
    /\ pc = "ticking"
    /\ next_time <= SECONDS_PER_DAY
    /\ LET t == next_time
           ev == event(orders_iter, t)
       IN /\ ev.kind = "Launch"
          /\ current_time' = t
          /\ ticks' = ticks + 1
          /\ orders_iter' = ev.rest
          /\ IF ev.order /= <<>>
             THEN /\ queued' = queued \cup {ev.order[1].id}
                  /\ launch_flights(queue_order(unfulfilled_orders, ev.order[1]), t)
             ELSE /\ queued' = queued
                  /\ launch_flights(unfulfilled_orders, t)
          /\ IF last_launch'.panicked
             THEN /\ pc' = "panicked"
                  /\ updates' = updates
             ELSE after_event(t)
    /\ UNCHANGED <<sched_params, speed, orders, first_launch_time, result>>
    /\ UNCHANGED hub_vars
    /\ UNCHANGED client_vars

\* one iteration of the loop whose event is Event::Order
TickOrder ==
    /\ pc = "ticking"
    /\ next_time <= SECONDS_PER_DAY
    /\ LET t == next_time
           ev == event(orders_iter, t)
       IN /\ ev.kind = "Order"
          /\ current_time' = t
          /\ ticks' = ticks + 1
          /\ orders_iter' = ev.rest
          /\ unfulfilled_orders' = queue_order(unfulfilled_orders, ev.order[1])
          /\ queued' = queued \cup {ev.order[1].id}
          /\ active_flights' = active_flights
          /\ flown' = flown
          /\ last_launch' = no_launch
          /\ after_event(t)
    /\ UNCHANGED <<sched_params, speed, orders, first_launch_time, result>>
    /\ UNCHANGED hub_vars
    /\ UNCHANGED client_vars

\* one iteration of the loop whose event is Event::Idle
TickIdle ==
    /\ pc = "ticking"
    /\ next_time <= SECONDS_PER_DAY
    /\ LET t == next_time
           ev == event(orders_iter, t)
       IN /\ ev.kind = "Idle"
          /\ current_time' = t
          /\ ticks' = ticks + 1
          /\ active_flights' = active_flights
          /\ last_launch' = no_launch
          /\ after_event(t)
    /\ UNCHANGED <<sched_params, speed, orders, orders_iter, first_launch_time, result,
                   unfulfilled_orders, queued, flown>>
    /\ UNCHANGED hub_vars
    /\ UNCHANGED client_vars

\* run_inner, line 170: the loop is over
RunFinish ==
    /\ pc = "ticking"
    /\ next_time > SECONDS_PER_DAY
    /\ pc' = "done"
    /\ result' = Ok(Len(unfulfilled_orders))
    /\ last_launch' = no_launch
    /\ UNCHANGED <<sched_params, unfulfilled_orders, active_flights, speed, orders,
                   orders_iter, first_launch_time, current_time, ticks, updates,
                   queued, flown>>
    /\ UNCHANGED hub_vars
    /\ UNCHANGED client_vars

RunNext == RunStart \/ TickLaunch \/ TickOrder \/ TickIdle \/ RunFinish

RunSpec == RunInit /\ [][RunNext]_vars

----------------------------------------------------------------------------
(* ThrottleSpec: run_inner from just before a snapshot tick of             *)
(* FastForward(200), so that a run crosses two of them                     *)

\* placement times: one second before the tick 50, and on it
ThrottleOrderTimes == {49, 50}

ThrottleOrderLists ==
    LET lists == UNION {[1..n -> ThrottleOrderTimes] : n \in 1..MaxRunOrders}
    IN {[i \in 1..Len(l) |->
            [id |-> i, time |-> l[i], destination |-> "near",
             priority |-> "Resupply"]] : l \in lists}

\* main.rs:29 runs the demo under FastForward(200); RealTime is the default
ThrottleSpeeds == {FastForward(200), RealTime}

ThrottleFleets == {3}

ThrottleInit ==
    /\ scheduler_new(ThrottleFleets, RunCarrierLoads)
    /\ pc = "start"
    /\ speed \in ThrottleSpeeds
    /\ orders \in ThrottleOrderLists
    /\ orders_iter = <<>>
    /\ first_launch_time = 0
    /\ current_time = 0
    /\ ticks = 0
    /\ updates = <<>>
    /\ result = no_result
    /\ hub_new
    /\ client_new

ThrottleSpec == ThrottleInit /\ [][RunNext]_vars

----------------------------------------------------------------------------
(* DetourSpec: run_inner over orders for the off-axis destinations and for *)
(* a name that is not in the destination set                               *)

\* "nowhere" is no key of `destinations`
DetourDestinations == {"half", "edge", "nowhere"}

DetourOrderLists ==
    LET order_set == [time : OrderTimes, destination : DetourDestinations,
                      priority : Priority]
        lists == UNION {[1..n -> order_set] : n \in 1..MaxRunOrders}
    IN {[i \in 1..Len(l) |->
            [id |-> i, time |-> l[i].time, destination |-> l[i].destination,
             priority |-> l[i].priority]] : l \in lists}

DetourFleets == {3}

DetourInit ==
    /\ scheduler_new(DetourFleets, RunCarrierLoads)
    /\ pc = "start"
    /\ speed = RealTime
    /\ orders \in DetourOrderLists
    /\ orders_iter = <<>>
    /\ first_launch_time = 0
    /\ current_time = 0
    /\ ticks = 0
    /\ updates = <<>>
    /\ result = no_result
    /\ hub_new
    /\ client_new

DetourSpec == DetourInit /\ [][RunNext]_vars

----------------------------------------------------------------------------
(* ScenarioSpec: a run with the scheduler of run_with_defaults over a      *)
(* single Resupply order for a destination 300 m from the depot            *)

\* CsvRunner::run_with_defaults: NaiveScheduler::new(destinations, 10, 3, 30, 160_000)
scheduler_with_defaults ==
    /\ num_carriers = 10
    /\ max_orders_per_carrier = 3
    /\ carrier_speed_mps = 30
    /\ carrier_range_m = 160000
    /\ unfulfilled_orders = <<>>
    /\ active_flights = <<>>
    /\ queued = {}
    /\ flown = <<>>
    /\ last_launch = no_launch

\* placement time of the order: on the launch tick 0, or one second later
ScenarioOrderTimes == {0, 1}

ScenarioInit ==
    /\ scheduler_with_defaults
    /\ pc = "start"
    /\ speed = RealTime
    /\ \E t \in ScenarioOrderTimes :
        orders = <<[id |-> 1, time |-> t, destination |-> "field",
                    priority |-> "Resupply"]>>
    /\ orders_iter = <<>>
    /\ first_launch_time = 0
    /\ current_time = 0
    /\ ticks = 0
    /\ updates = <<>>
    /\ result = no_result
    /\ hub_new
    /\ client_new

ScenarioSpec == ScenarioInit /\ [][RunNext]_vars

----------------------------------------------------------------------------
(* HubSpec: main joins the run, the hub and the gRPC server               *)
(* (server/src/main.rs:89-93); monitor calls arrive on the server's tasks. *)

\* number of monitor calls in one behaviour
MaxSubscribers == 2

\* the one order of the run, placed at a snapshot tick of FastForward(200):
\* the run sends the snapshots of the ticks 50 and 100
HubOrders == <<[id |-> 1, time |-> 50, destination |-> "near", priority |-> "Resupply"]>>

HubFleets == {3}

\* main.rs:25-32
HubInit ==
    /\ scheduler_new(HubFleets, RunCarrierLoads)
    /\ pc = "start"
    /\ speed = FastForward(200)
    /\ orders = HubOrders
    /\ orders_iter = <<>>
    /\ first_launch_time = 0
    /\ current_time = 0
    /\ ticks = 0
    /\ updates = <<>>
    /\ result = no_result
    /\ hub_new
    /\ client_new

sched_vars == <<sched_params, unfulfilled_orders, active_flights, current_time,
                queued, flown, last_launch>>

\* ServerService::monitor: a fresh id and channel, the sender goes to the hub
Monitor ==
    /\ Len(subscribers) < MaxSubscribers
    /\ LET id == Len(subscribers) + 1
       IN /\ subscribers' = Append(subscribers, new_channel)
          /\ subscriptions_channel' = Append(subscriptions_channel, id)
    /\ last_event' = no_event
    /\ UNCHANGED <<sched_vars, runner_vars, subscriptions, updates_taken, registered>>
    /\ UNCHANGED client_vars

\* the client polls the stream monitor returned: one snapshot leaves the channel
ClientRecv ==
    /\ \E id \in DOMAIN subscribers :
        /\ subscribers[id].rx_alive
        /\ subscribers[id].taken < Len(subscribers[id].delivered)
        /\ subscribers' = [subscribers EXCEPT ![id].taken = @ + 1]
    /\ last_event' = no_event
    /\ UNCHANGED <<sched_vars, runner_vars, subscriptions, subscriptions_channel,
                   updates_taken, registered>>
    /\ UNCHANGED client_vars

\* the client goes away: the stream, and the receiver in it, is dropped
ClientDrop ==
    /\ \E id \in DOMAIN subscribers :
        /\ subscribers[id].rx_alive
        /\ subscribers' = [subscribers EXCEPT ![id].rx_alive = FALSE]
    /\ last_event' = no_event
    /\ UNCHANGED <<sched_vars, runner_vars, subscriptions, subscriptions_channel,
                   updates_taken, registered>>
    /\ UNCHANGED client_vars

\* the scan closure on Event::Update (main.rs:54-71)
HubUpdate ==
    /\ updates_taken < Len(updates)
    /\ LET update == next_update(updates, updates_taken)
           gone == disconnected(subscriptions, subscribers, update)
       IN /\ updates_taken' = updates_taken + 1
          /\ subscribers' = fan_out(subscriptions, subscribers, update)
          /\ subscriptions' = subscriptions \ gone
          /\ last_event' =
                [kind |-> "Update", update |-> <<update>>, id |-> 0,
                 map_before |-> subscriptions,
                 connected_before |-> {id \in subscriptions : subscribers[id].rx_alive},
                 removed |-> gone]
    /\ UNCHANGED <<sched_vars, runner_vars, subscriptions_channel, registered>>
    /\ UNCHANGED client_vars

\* the scan closure on Event::NewSubscription (main.rs:74-78)
HubNewSubscription ==
    /\ subscriptions_channel /= <<>>
    /\ LET id == Head(subscriptions_channel)
           after == new_subscription(subscriptions, subscribers, updates, id)
       IN /\ subscriptions_channel' = Tail(subscriptions_channel)
          /\ subscriptions' = after.subscriptions
          /\ subscribers' = after.subscribers
          /\ registered' = Append(registered,
                [id |-> id, sent |-> Len(updates), taken |-> updates_taken])
          /\ last_event' =
                [kind |-> "NewSubscription", update |-> <<>>, id |-> id,
                 map_before |-> subscriptions,
                 connected_before |-> {i \in subscriptions : subscribers[i].rx_alive},
                 removed |-> {}]
    /\ UNCHANGED <<sched_vars, runner_vars, updates_taken>>
    /\ UNCHANGED client_vars

\* select_all yields an item of either stream that has one
HubNext == HubUpdate \/ HubNewSubscription

ClientNext == Monitor \/ ClientRecv \/ ClientDrop

HubSpec == HubInit /\ [][RunNext \/ HubNext \/ ClientNext]_vars

----------------------------------------------------------------------------
(* The way of a snapshot to the map of a monitoring client *)

\* NonZeroU8: 1..=255
NonZeroU8 == 1..255

\* every value of the enum Speed (schema/src/runner.rs:22-30)
Speeds ==
    {RealTime} \cup {FastForward(n) : n \in NonZeroU8} \cup {SlowMotion(n) : n \in NonZeroU8}

\* `n as u8` for an i32 n
as_u8(n) == n % 256

\* NonZeroU8::new(..).expect("speed") on 0
speed_panic == [kind |-> "panic", factor |-> 0]

\* Speed::to_i32
to_i32(s) ==
    IF s.kind = "RealTime" THEN 0
    ELSE IF s.kind = "FastForward" THEN s.factor
    ELSE -1 * s.factor

\* Speed::from_i32
from_i32(n) ==
    IF n = 0 THEN RealTime
    ELSE IF as_u8(n) = 0 THEN speed_panic
    ELSE IF n > 0 THEN FastForward(as_u8(n))
    ELSE SlowMotion(as_u8(n))

\* `as i64` of a u64 and `as u64` of an i64: both keep every value below
\* 2^63, and no time of the model exceeds SECONDS_PER_DAY
as_i64(n) == n
as_u64(n) == n

\* ToFromProto<proto::server::Flight>::into_proto / try_from_proto, with the
\* orders carried as they are (Order::into_proto maps field by field)
flight_into_proto(flight) ==
    [launch_time |-> as_i64(flight.launch_time), orders |-> flight.orders]
flight_try_from_proto(message) ==
    [launch_time |-> as_u64(message.launch_time), orders |-> message.orders]

\* ToFromProto<proto::server::StatusUpdate>::into_proto
into_proto(update) ==
    [time |-> as_i64(update.time),
     flights |-> [i \in 1..Len(update.flights) |-> flight_into_proto(update.flights[i])],
     speed |-> to_i32(update.speed)]

\* ToFromProto<proto::server::StatusUpdate>::try_from_proto
try_from_proto(message) ==
    [time |-> as_u64(message.time),
     flights |-> [i \in 1..Len(message.flights) |-> flight_try_from_proto(message.flights[i])],
     speed |-> from_i32(message.speed)]

\* client/src/map.rs:14
CARRIER_SPEED_MPS == 30

\* the stops of a flight followed by the origin (entities.rs:152-156)
route(flight) ==
    [i \in 1..(Len(flight.orders) + 1) |->
        IF i <= Len(flight.orders) THEN destinations[flight.orders[i].destination]
        ELSE ORIGIN]

\* the body of the loop of current_position from leg i (1-based) on, with
\* `distance` left to travel; positions in centimetres, rounded down
position_from(flight, i, distance) ==
    LET stops == route(flight)
        n == Len(flight.orders)
        walk[k \in 1..(n + 2), d \in 0..distance] ==
            IF k > n + 1
            THEN [east_cm |-> 0, north_cm |-> 0, nan |-> FALSE, stops |-> n]
            ELSE LET dest == stops[k]
                     prev == IF k = 1 THEN ORIGIN ELSE stops[k - 1]
                     dist_between == distance_from_other(dest, prev)
                 IN IF saturating_sub(d, dist_between) = 0
                    THEN IF dist_between = 0
                         THEN [east_cm |-> 0, north_cm |-> 0, nan |-> TRUE,
                               stops |-> n - (k - 1)]
                         ELSE [east_cm |-> ((dest.east_m - prev.east_m) * d * 100)
                                               \div dist_between + 100 * prev.east_m,
                               north_cm |-> ((dest.north_m - prev.north_m) * d * 100)
                                               \div dist_between + 100 * prev.north_m,
                               nan |-> FALSE,
                               stops |-> n - (k - 1)]
                    ELSE walk[k + 1, saturating_sub(d, dist_between)]
    IN walk[i, distance]

\* Flight::current_position; its caller passes a time that is not before
\* the launch and flights whose destinations it knows
current_position(flight, now, speed_mps) ==
    position_from(flight, 1, (now - flight.launch_time) * speed_mps)

\* Message::IncrementPerceivedTime (client/src/main.rs:86-90)
perceived_increment(s) ==
    IF s.kind = "RealTime" THEN 50
    ELSE IF s.kind = "FastForward" THEN s.factor * 50
    ELSE 50 \div s.factor

\* map::view (client/src/map.rs:46-61): one entry per flight of the update
view(update, millis) ==
    [i \in 1..Len(update.flights) |->
        current_position(update.flights[i], millis \div 1000, CARRIER_SPEED_MPS)]

\* how far past its latest snapshot the model follows the time of a client
MaxPerceivedAhead == 9000

\* the next snapshot goes through the stream of monitor (into_proto,
\* main.rs:119-121), is decoded by the client (try_from_proto,
\* client.rs:219-223) and handled as Message::StatusUpdate (main.rs:77-82)
ReceiveUpdate ==
    /\ Len(stream) < Len(updates)
    /\ LET proto == into_proto(updates[Len(stream) + 1])
           update == try_from_proto(proto)
       IN /\ stream' = Append(stream, proto)
          /\ IF update.speed = speed_panic
             THEN UNCHANGED <<latest_update, perceived_time_millis>>
             ELSE /\ latest_update' = <<update>>
                  /\ perceived_time_millis' = update.time * 1000
    /\ UNCHANGED <<sched_vars, runner_vars, hub_vars, carrier_positions>>

\* Message::IncrementPerceivedTime (main.rs:84-93)
IncrementPerceivedTime ==
    /\ latest_update /= <<>>
    /\ perceived_time_millis + perceived_increment(latest_update[1].speed)
            <= latest_update[1].time * 1000 + MaxPerceivedAhead
    /\ perceived_time_millis' =
            perceived_time_millis + perceived_increment(latest_update[1].speed)
    /\ UNCHANGED <<sched_vars, runner_vars, hub_vars, stream, latest_update,
                   carrier_positions>>

\* Gui::view (main.rs:139-143) with an update to show
View ==
    /\ latest_update /= <<>>
    /\ carrier_positions' = view(latest_update[1], perceived_time_millis)
    /\ UNCHANGED <<sched_vars, runner_vars, hub_vars, stream, latest_update,
                   perceived_time_millis>>

GuiNext == ReceiveUpdate \/ IncrementPerceivedTime \/ View

\* orders placed in the two seconds before the second launch tick
LateOrderTimes == {2 * LAUNCH_PERIOD - 2, 2 * LAUNCH_PERIOD - 1}
LateOrderLists(dests, priorities) ==
    {l \in UNION {[1..n -> [id : 1..MaxRunOrders, time : LateOrderTimes,
                            destination : dests, priority : priorities]] :
                    n \in 1..MaxRunOrders} :
        \A i \in 1..Len(l) :
            /\ l[i].id = i
            /\ l[i].time = (2 * LAUNCH_PERIOD - 2) + ((i - 1) % 2)}

\* a run and a client that subscribed before its first snapshot
GuiInit(speeds, lists) ==
    /\ scheduler_new({3}, RunCarrierLoads)
    /\ pc = "start"
    /\ speed \in speeds
    /\ orders \in lists
    /\ orders_iter = <<>>
    /\ first_launch_time = 0
    /\ current_time = 0
    /\ ticks = 0
    /\ updates = <<>>
    /\ result = no_result
    /\ hub_new
    /\ client_new

\* WireSpec: a run at any Speed, its snapshots decoded by a client
WireInit == GuiInit(Speeds, LateOrderLists({"near"}, {"Resupply"}))

WireSpec == WireInit /\ [][RunNext \/ ReceiveUpdate]_vars

\* ViewSpec: a client draws the flights of the snapshots as its time goes on
ViewDestinations == {"close", "near", "far"}
ViewSpeeds == {FastForward(4), FastForward(20)}
ViewInit == GuiInit(ViewSpeeds, LateOrderLists(ViewDestinations, Priority))

ViewSpec == ViewInit /\ [][RunNext \/ GuiNext]_vars

----------------------------------------------------------------------------
(* Properties of the scheduler, checked under Spec *)

pending_ids == [i \in 1..Len(unfulfilled_orders) |-> unfulfilled_orders[i].id]
active_ids == ids_carried(active_flights)
\* the flight that carried the order has landed
delivered(id) == id \in DOMAIN flown /\ times_in(active_ids, id) = 0

\* C1: the number of active flights never exceeds num_carriers, in
\* particular right after every launch_flights call.
CapacityInvariant == Len(active_flights) <= num_carriers

\* a launch_flights call that found the whole fleet in the air and had an
\* order to place
CapacityWitness ==
    /\ last_launch.called
    /\ last_launch.active_after_landing = num_carriers
    /\ last_launch.examined /= <<>>
    /\ Len(active_flights) = num_carriers

\* C2: every flight created by launch_flights has a total route distance,
\* return leg included, of at most carrier_range_m.
RangeInvariant ==
    last_launch.called =>
        \A i \in 1..Len(last_launch.returned) :
            total_distance(last_launch.returned[i]) <= carrier_range_m

\* C3: every flight created by launch_flights carries at least one and at
\* most max_orders_per_carrier orders.
LoadInvariant ==
    /\ \A i \in 1..Len(active_flights) :
        /\ Len(active_flights[i].orders) >= 1
        /\ Len(active_flights[i].orders) <= max_orders_per_carrier
    /\ \A i \in 1..Len(last_launch.returned) :
        /\ Len(last_launch.returned[i].orders) >= 1
        /\ Len(last_launch.returned[i].orders) <= max_orders_per_carrier

\* a launch whose only flight is full, so that a further order for the same
\* stop, which is within range of it, was refused
LoadWitness ==
    /\ last_launch.called
    /\ Len(last_launch.returned) = 1
    /\ Len(last_launch.returned[1].orders) = max_orders_per_carrier
    /\ Last(last_launch.returned[1].orders).destination = "near"
    /\ last_launch.dropped /= <<>>
    /\ last_launch.dropped[1].destination = "near"

\* C4: with no Emergency order pending when launch_flights(t) is called, the
\* call creates at most max(0, num_carriers - A - NUM_RESERVE_CARRIERS)
\* flights, A being the flights still active after landing at t.
ReservationProperty ==
    (last_launch.called /\ ~last_launch.emergency_pending) =>
        LET free == num_carriers - last_launch.active_after_landing - NUM_RESERVE_CARRIERS
        IN Len(last_launch.returned) <= (IF free > 0 THEN free ELSE 0)

\* the reserve is what stopped a second flight: one carrier beyond the
\* reserve flew and the next Resupply order found no bin
ReservationWitness ==
    /\ last_launch.called
    /\ ~last_launch.emergency_pending
    /\ Len(last_launch.returned) >= 1
    /\ Len(last_launch.returned) =
        num_carriers - last_launch.active_after_landing - NUM_RESERVE_CARRIERS
    /\ last_launch.dropped /= <<>>

\* C5: with an Emergency order pending when launch_flights(t) is called, the
\* reserve is not subtracted: num_carriers - A bins are allocated, and up
\* to that many flights are created.
EmergencyOverridesReservation ==
    (last_launch.called /\ last_launch.emergency_pending) =>
        /\ last_launch.bins = num_carriers - last_launch.active_after_landing
        /\ Len(last_launch.returned) <= last_launch.bins

\* every carrier of the fleet flew in one launch, the reserve included
EmergencyWitness ==
    /\ last_launch.called
    /\ last_launch.emergency_pending
    /\ last_launch.active_after_landing = 0
    /\ Len(last_launch.returned) = num_carriers

\* C6: no queued order instance is in two flights (active or landed), twice
\* in one flight, or both pending and in a flight.
NoDuplication ==
    /\ \A id \in DOMAIN flown : flown[id] <= 1
    /\ \A id \in queued : times_in(active_ids, id) <= 1
    /\ \A id \in queued : times_in(pending_ids, id) <= 1
    /\ \A i \in 1..Len(pending_ids) : pending_ids[i] \notin DOMAIN flown

\* one order delivered, another in the air
NoDuplicationWitness ==
    /\ \E id \in queued : delivered(id)
    /\ \E id \in queued : times_in(active_ids, id) = 1

\* C7: every order passed to queue_order and not yet delivered is in the
\* pending queue or in exactly one active flight.
NoOrderLost ==
    \A id \in queued :
        ~delivered(id) => times_in(pending_ids, id) + times_in(active_ids, id) = 1

----------------------------------------------------------------------------
(* Properties of a run, checked under RunSpec *)

RunResultCountsUnassigned ==
    pc = "done" =>
        result = Ok(Cardinality({id \in 1..Len(orders) : id \notin DOMAIN flown}))

\* C10: a run over an empty order list ends with Err("No orders"), without
\* a tick, a queue_order or launch_flights call, or a snapshot.
EmptyOrderList ==
    orders = <<>> =>
        /\ pc \in {"start", "error"}
        /\ pc = "error" => result = Err("No orders")
        /\ pc = "start" => result = no_result
        /\ ticks = 0
        /\ current_time = 0
        /\ queued = {}
        /\ ~last_launch.called
        /\ unfulfilled_orders = <<>>
        /\ active_flights = <<>>
        /\ updates = <<>>

EmptyOrderListWitness == orders = <<>> /\ pc = "error" /\ result = Err("No orders")

\* C11: every input order whose placement time lies between the first
\* order's time and SECONDS_PER_DAY is passed to queue_order exactly once,
\* by the tick of its placement time: once that tick is handled the order
\* has been queued, before it the order has not, also when several orders
\* share a placement time.
OrdersFedAtTheirTime ==
    (pc \in {"ticking", "done"} /\ ticks > 0) =>
        \A i \in 1..Len(orders) :
            (orders[i].time >= first_launch_time /\ orders[i].time <= SECONDS_PER_DAY) =>
                (i \in queued <=> orders[i].time <= current_time)

\* C13: the update interval is max(1, factor / 4) under FastForward(factor)
\* and 1 under the other speeds, never 0: the remainder test of the tick
\* loop is defined at every tick, and a run under FastForward(1..3) has
\* sent one snapshot per tick handled.
UpdateIntervalDefined ==
    /\ update_interval_seconds(speed) =
            (IF speed.kind = "FastForward"
             THEN (IF speed.factor \div MAX_UPDATES_PER_SECOND > 1
                   THEN speed.factor \div MAX_UPDATES_PER_SECOND ELSE 1)
             ELSE 1)
    /\ pc /= "panicked"
    /\ (speed.kind = "FastForward" /\ speed.factor \in 1..3) => Len(updates) = ticks

----------------------------------------------------------------------------
(* Snapshot throttling, checked under ThrottleSpec *)

----------------------------------------------------------------------------
(* Properties of the hub, checked under HubSpec *)

\* position of a snapshot among those the run has sent
produced_index(update) == CHOOSE i \in 1..Len(updates) : updates[i] = update

\* the hub's record of inserting id
registration(id) == CHOOSE r \in {registered[i] : i \in 1..Len(registered)} : r.id = id

is_registered(id) == \E i \in 1..Len(registered) : registered[i].id = id

copies(seq, x) == Cardinality({k \in 1..Len(seq) : seq[k] = x})

\* C14: when the hub has processed an Update, every subscriber that was in
\* the map at that moment with its receiver alive has been sent that
\* snapshot exactly once, whatever Update and NewSubscription events came
\* before in whatever order.
FanOut ==
    last_event.kind = "Update" =>
        \A id \in last_event.connected_before :
            /\ copies(subscribers[id].delivered, last_event.update[1]) = 1
            /\ Last(subscribers[id].delivered) = last_event.update[1]

\* an Update served to two subscribers, one of them inserted between the
\* two Updates of the run
FanOutWitness ==
    /\ last_event.kind = "Update"
    /\ last_event.connected_before = {1, 2}
    /\ Len(subscribers[1].delivered) = 2
    /\ Len(subscribers[2].delivered) = 1
    /\ Last(subscribers[2].delivered) = updates[2]

\* C15: on every subscriber's channel the snapshots are in the order the
\* run sent them: strictly increasing simulated time, none twice, none out
\* of place.
PerSubscriberFifo ==
    \A id \in DOMAIN subscribers :
        LET d == subscribers[id].delivered
        IN /\ \A k \in 1..Len(d) : \E i \in 1..Len(updates) : updates[i] = d[k]
           /\ \A k \in 1..(Len(d) - 1) :
                /\ d[k].time < d[k + 1].time
                /\ produced_index(d[k]) < produced_index(d[k + 1])

\* a client that has read both snapshots of the run, in order
PerSubscriberFifoWitness ==
    \E id \in DOMAIN subscribers :
        /\ subscribers[id].delivered = updates
        /\ Len(updates) = 2
        /\ subscribers[id].taken = 2

\* C16 as claimed: a subscriber is sent only snapshots that the run sent
\* after the hub inserted the subscriber into its map.
NoReplayOfProduced ==
    \A id \in DOMAIN subscribers :
        \A k \in 1..Len(subscribers[id].delivered) :
            /\ is_registered(id)
            /\ produced_index(subscribers[id].delivered[k]) > registration(id).sent

\* C16, amended: a subscriber is sent only snapshots that the hub took from
\* the run's channel after it inserted the subscriber, never one the hub
\* had processed before; a snapshot that was already sent by the run but
\* still in the channel at the insertion is delivered.  Processing
\* NewSubscription itself delivers nothing.
NoReplayOfProcessed ==
    /\ [](\A id \in DOMAIN subscribers :
            \A k \in 1..Len(subscribers[id].delivered) :
                /\ is_registered(id)
                /\ produced_index(subscribers[id].delivered[k]) > registration(id).taken)
    /\ [][last_event'.kind = "NewSubscription" => subscribers' = subscribers]_vars

\* a subscriber inserted after the hub processed the first snapshot, and
\* served the second one only
NoReplayWitness ==
    \E id \in DOMAIN subscribers :
        /\ is_registered(id)
        /\ registration(id).taken = 1
        /\ Len(updates) = 2
        /\ subscribers[id].delivered = <<updates[2]>>

\* C17: after the hub has processed an Update the map holds none of the
\* subscribers whose receiver was dropped before; an id leaves the map only
\* during an Update and only if its receiver was dropped, and dropping a
\* receiver leaves the map as it is.
Pruning ==
    /\ [](last_event.kind = "Update" =>
            /\ subscriptions = last_event.connected_before
            /\ last_event.removed = last_event.map_before \ last_event.connected_before)
    /\ [][/\ (subscriptions \ subscriptions' /= {}) =>
                /\ last_event'.kind = "Update"
                /\ \A id \in subscriptions \ subscriptions' : ~subscribers[id].rx_alive
          /\ (\E id \in DOMAIN subscribers :
                subscribers[id].rx_alive /\ ~subscribers'[id].rx_alive) =>
                    subscriptions' = subscriptions]_vars

\* an Update that removed a dropped subscriber and kept a connected one
PruningWitness ==
    /\ last_event.kind = "Update"
    /\ last_event.removed /= {}
    /\ subscriptions /= {}
    /\ \A id \in last_event.removed : ~subscribers[id].rx_alive

\* the tick loop has a next step: the launch of a launch tick (TickLaunch
\* has no guard beyond the tick being one), or else one of the other steps
tick_loop_can_step ==
    \/ /\ next_time <= SECONDS_PER_DAY
       /\ event(orders_iter, next_time).kind = "Launch"
    \/ ENABLED (TickOrder \/ TickIdle \/ RunFinish)

\* C18: a subscriber that is disconnected, or that never reads its
\* channel, costs the others nothing: the pass still sends the snapshot to
\* every other connected subscriber, the hub can process every event that
\* is waiting, and the tick loop always has a next step and does not fail.
FailureIsolation ==
    /\ last_event.kind = "Update" =>
            \A bad \in last_event.map_before :
                (~subscribers[bad].rx_alive \/ subscribers[bad].taken = 0) =>
                    \A id \in last_event.connected_before \ {bad} :
                        /\ subscribers[id].delivered /= <<>>
                        /\ Last(subscribers[id].delivered) = last_event.update[1]
    /\ updates_taken < Len(updates) => ENABLED HubUpdate
    /\ subscriptions_channel /= <<>> => ENABLED HubNewSubscription
    /\ pc = "ticking" => tick_loop_can_step
    /\ pc \notin {"panicked", "error"}

\* the run is over; one subscriber was dropped and pruned, the other never
\* read its channel and holds both snapshots
FailureIsolationWitness ==
    /\ pc = "done"
    /\ last_event.kind = "Update"
    /\ last_event.update[1] = updates[2]
    /\ \E bad \in DOMAIN subscribers, id \in DOMAIN subscribers :
        /\ ~subscribers[bad].rx_alive
        /\ bad \notin subscriptions
        /\ is_registered(bad)
        /\ subscribers[id].taken = 0
        /\ subscribers[id].delivered = updates

----------------------------------------------------------------------------
(* The single-order scenario, checked under ScenarioSpec *)

\* the first launch tick at or after second t
launch_tick_from(t) == ((t + LAUNCH_PERIOD - 1) \div LAUNCH_PERIOD) * LAUNCH_PERIOD

\* C19 as claimed: one Resupply order placed at t=0 for a destination 300 m
\* out, default fleet: the launch at t=60 creates exactly one flight, with
\* that order only and end_time = 60 + 600/30 = 80, no other launch creates
\* a flight, and the run returns an unfulfilled count of 0.
SingleOrderLaunchedAtSixty ==
    orders[1].time = 0 =>
        /\ last_launch.called =>
                IF last_launch.time = 60
                THEN /\ last_launch.returned =
                            <<[launch_time |-> 60, orders |-> <<orders[1]>>]>>
                     /\ end_time(last_launch.returned[1]) = 80
                ELSE last_launch.returned = <<>>
        /\ pc = "done" => result = Ok(0)

\* C19, amended: the flight is created by the first launch tick at or after
\* the placement time, which for an order placed at t=0 is tick 0 itself
\* (end_time 0 + 600/30 = 20) and for an order placed at t=1 is tick 60
\* (end_time 80); it carries that order only; every other launch creates
\* no flight; the run returns 0 and the order was flown once.
SingleOrderLaunchedAtNextTick ==
    LET launch == launch_tick_from(orders[1].time)
    IN /\ last_launch.called =>
            IF last_launch.time = launch
            THEN /\ last_launch.returned =
                        <<[launch_time |-> launch, orders |-> <<orders[1]>>]>>
                 /\ total_distance(last_launch.returned[1]) = 600
                 /\ end_time(last_launch.returned[1]) = launch + 20
            ELSE last_launch.returned = <<>>
       /\ pc = "done" =>
            /\ result = Ok(0)
            /\ DOMAIN flown = {1}
            /\ flown[1] = 1

\* the order placed at t=1 leaves with the launch at t=60 and is back at 80
SingleOrderWitness ==
    /\ orders[1].time = 1
    /\ last_launch.called
    /\ last_launch.time = 60
    /\ Len(last_launch.returned) = 1
    /\ end_time(last_launch.returned[1]) = 80

----------------------------------------------------------------------------
(* The reserve scenario, checked under Spec *)

\* the order's destination can be reached and returned from
within_range(order) ==
    2 * distance_from_other(destinations[order.destination], ORIGIN) <= carrier_range_m

\* C20: an idle fleet of N carriers (10 in the claim; the fleets of
\* FleetSizes here), N - 1 pending Resupply orders that must each fly alone
\* (max_orders_per_carrier = 1, every destination within range) and no
\* Emergency order: one launch_flights call creates at most
\* N - NUM_RESERVE_CARRIERS flights and leaves exactly 1 order in the
\* pending queue.
ReserveLeavesOnePending ==
    (/\ last_launch.called
     /\ ~last_launch.emergency_pending
     /\ max_orders_per_carrier = 1
     /\ num_carriers > NUM_RESERVE_CARRIERS
     /\ Len(active_flights) = Len(last_launch.returned)
     /\ Len(last_launch.examined) + Len(unfulfilled_orders) = num_carriers - 1
     /\ \A i \in 1..Len(last_launch.examined) : within_range(last_launch.examined[i])
     /\ \A i \in 1..Len(unfulfilled_orders) : within_range(unfulfilled_orders[i]))
    => /\ Len(last_launch.returned) <= num_carriers - NUM_RESERVE_CARRIERS
       /\ Len(unfulfilled_orders) = 1

----------------------------------------------------------------------------
(* Unreachable and unknown destinations, checked under DetourSpec *)

in_seq(seq, x) == \E k \in 1..Len(seq) : seq[k] = x

\* the order's destination is farther from the origin than the range
beyond_range(order) ==
    /\ known_destination(order)
    /\ distance_from_other(destinations[order.destination], ORIGIN) > carrier_range_m

\* C21: an order whose destination lies farther than carrier_range_m from
\* the origin is in no flight; the launch_flights call that examines it
\* drops it from the pending queue and returns.
UnreachableNeverAssigned ==
    /\ \A i \in 1..Len(active_flights) :
            \A k \in 1..Len(active_flights[i].orders) :
                ~beyond_range(active_flights[i].orders[k])
    /\ last_launch.called =>
            \A k \in 1..Len(last_launch.examined) :
                beyond_range(last_launch.examined[k]) =>
                    /\ in_seq(last_launch.dropped, last_launch.examined[k])
                    /\ ~in_seq(unfulfilled_orders, last_launch.examined[k])
                    /\ ~last_launch.panicked

\* C22: queue_order takes an order for an unknown destination like any
\* other (the order the tick consumes is in the queue, or was examined by
\* the launch of the same tick); the launch_flights call that examines it
\* panics and the run aborts without a result; the order is never dropped
\* as unfit and never flown, and a run that returns a result has not
\* examined one.
UnknownDestinationIsFatal ==
    /\ [](/\ last_launch.called =>
               /\ last_launch.panicked <=>
                       \E k \in 1..Len(last_launch.examined) :
                           ~known_destination(last_launch.examined[k])
               /\ last_launch.panicked => pc = "panicked"
               /\ \A k \in 1..Len(last_launch.dropped) :
                       known_destination(last_launch.dropped[k])
          /\ pc = "panicked" => result = no_result
          /\ \A i \in 1..Len(active_flights) :
               \A k \in 1..Len(active_flights[i].orders) :
                   known_destination(active_flights[i].orders[k])
          /\ pc = "done" =>
               \A id \in queued :
                   ~known_destination(orders[id]) => times_in(pending_ids, id) = 1)
    /\ [][orders_iter' /= orders_iter /\ orders_iter /= <<>> =>
            /\ Head(orders_iter).id \in queued'
            /\ \/ in_seq(unfulfilled_orders', Head(orders_iter))
               \/ in_seq(last_launch'.examined, Head(orders_iter))]_vars

\* a launch tick that popped an order for the unknown destination
UnknownDestinationWitness ==
    /\ pc = "panicked"
    /\ last_launch.called
    /\ last_launch.panicked
    /\ Last(last_launch.examined).destination = "nowhere"
    /\ result = no_result

----------------------------------------------------------------------------
(* The clock of a run, checked under RunSpec *)

\* C23: a run over a non-empty order list handles one tick per simulated
\* second from the first order's time through SECONDS_PER_DAY, in
\* increasing order without a gap or a repetition, and then completes with
\* a result.
ClockAndTermination ==
    orders /= <<>> =>
        /\ pc /= "start" =>
                /\ \E i \in 1..Len(orders) : orders[i].time = first_launch_time
                /\ \A i \in 1..Len(orders) : orders[i].time >= first_launch_time
        /\ ticks > 0 => current_time = first_launch_time + ticks - 1
        /\ current_time <= SECONDS_PER_DAY
        /\ pc \notin {"panicked", "error"}
        /\ pc = "done" =>
                /\ current_time = SECONDS_PER_DAY
                /\ result.ok

----------------------------------------------------------------------------
(* The packing pass, checked under Spec *)

\* the last order examined found no eligible bin
pass_broke == last_launch.steps /= <<>> /\ Last(last_launch.steps).chosen = 0

ids_of(seq) == {seq[k].id : k \in 1..Len(seq)}

\* C24 as claimed: when no bin is eligible for the order being placed,
\* neither that order nor any order not yet examined is in the pending
\* queue after the call.
UnfitEmptiesTheQueue ==
    (last_launch.called /\ pass_broke) => unfulfilled_orders = <<>>

\* C24, amended: when no bin is eligible for the order being placed, the
\* pass stops at once: that order is the last one examined, it is neither
\* in the pending queue nor in a flight after the call, and the orders not
\* yet examined stay in the pending queue.  Every order examined before
\* it was placed.
StopOnFirstUnfit ==
    /\ [](last_launch.called =>
            /\ \A k \in 1..(Len(last_launch.steps) - 1) : last_launch.steps[k].chosen /= 0
            /\ pass_broke =>
                LET order == Last(last_launch.examined)
                IN /\ Last(last_launch.steps).order = order
                   /\ \A i \in 1..Len(Last(last_launch.steps).bins) :
                        ~eligible(Last(last_launch.steps).bins[i], order)
                   /\ order.id \notin ids_of(unfulfilled_orders)
                   /\ times_in(ids_carried(last_launch.returned), order.id) = 0)
    /\ [][last_launch'.called =>
            /\ ids_of(unfulfilled_orders') \cup ids_of(last_launch'.examined)
                    = ids_of(unfulfilled_orders)
            /\ ids_of(unfulfilled_orders') \cap ids_of(last_launch'.examined) = {}]_vars

\* a pass that broke on its first order and left the other one pending
StopOnFirstUnfitWitness ==
    /\ last_launch.called
    /\ pass_broke
    /\ Len(last_launch.examined) = 1
    /\ Len(unfulfilled_orders) = 1

\* C25: within one launch_flights pass every pending Emergency order is
\* examined before any Resupply order: no Resupply order precedes an
\* Emergency order among the examined ones, and once a Resupply order has
\* been examined no Emergency order is left in the queue.
PriorityOrdering ==
    last_launch.called =>
        /\ \A i, j \in 1..Len(last_launch.examined) :
                (i < j /\ last_launch.examined[i].priority = "Resupply") =>
                    last_launch.examined[j].priority = "Resupply"
        /\ (\E i \in 1..Len(last_launch.examined) :
                last_launch.examined[i].priority = "Resupply") =>
                    \A k \in 1..Len(unfulfilled_orders) :
                        unfulfilled_orders[k].priority = "Resupply"

\* a Resupply order queued first, an Emergency order queued second, and a
\* pass that examined the Emergency order first
PriorityOrderingWitness ==
    /\ last_launch.called
    /\ Len(last_launch.examined) = 2
    /\ last_launch.examined[1].priority = "Emergency"
    /\ last_launch.examined[1].id = 2
    /\ last_launch.examined[2].priority = "Resupply"

\* the bins of `after` are those of `before` with the bin at `chosen`
\* replaced by `placed`, in whatever order
same_bins_but(before, chosen, placed, after) ==
    LET updated == [before EXCEPT ![chosen] = placed]
    IN /\ Len(after) = Len(updated)
       /\ \A i \in 1..Len(updated) : copies(after, updated[i]) = copies(updated, updated[i])

\* C26: each examined order is placed whenever at least one bin is
\* eligible (fewer than max_orders_per_carrier orders, and
\* distance_allocated plus the leg from its last stop, or from the origin,
\* within carrier_range_m); the bin chosen is an eligible one with the
\* smallest distance_allocated for an Emergency order and with the most
\* orders for a Resupply order; the order is appended to it and the leg
\* added to its distance_allocated.
BinSelection ==
    last_launch.called =>
        \A k \in 1..Len(last_launch.steps) :
            LET step == last_launch.steps[k]
                bins == step.bins
                fits == {i \in 1..Len(bins) :
                            /\ Len(bins[i].orders) < max_orders_per_carrier
                            /\ bins[i].distance_allocated + leg_distance(bins[i], step.order)
                                    <= carrier_range_m}
                next_bins == IF k < Len(last_launch.steps)
                             THEN last_launch.steps[k + 1].bins
                             ELSE last_launch.packed_bins
            IN /\ step.order = last_launch.examined[k]
               /\ (fits = {}) <=> (step.chosen = 0)
               /\ step.chosen /= 0 =>
                    /\ step.chosen \in fits
                    /\ step.order.priority = "Emergency" =>
                            \A j \in fits : bins[step.chosen].distance_allocated
                                                <= bins[j].distance_allocated
                    /\ step.order.priority = "Resupply" =>
                            \A j \in fits : Len(bins[step.chosen].orders)
                                                >= Len(bins[j].orders)
                    /\ same_bins_but(bins, step.chosen,
                            [orders |-> Append(bins[step.chosen].orders, step.order),
                             distance_allocated |->
                                bins[step.chosen].distance_allocated
                                    + leg_distance(bins[step.chosen], step.order)],
                            next_bins)

\* two Emergency orders: the second goes to an empty bin although the bin
\* of the first could take it
BinSelectionWitness ==
    /\ last_launch.called
    /\ max_orders_per_carrier = 2
    /\ Len(last_launch.steps) = 2
    /\ last_launch.steps[2].order.priority = "Emergency"
    /\ last_launch.steps[2].chosen /= 0
    /\ \E i \in 1..Len(last_launch.steps[2].bins) :
        /\ last_launch.steps[2].bins[i].orders /= <<>>
        /\ eligible(last_launch.steps[2].bins[i], last_launch.steps[2].order)
    /\ Len(last_launch.returned) = 2

\* C27: at the end of launch_flights(t) every bin holding at least one
\* order, a bin whose stops are all at distance 0 included, is a new active
\* flight with launch_time t and the bin's orders in placement order; empty
\* bins give nothing; the flights returned are those created by this call,
\* appended to the flights that stayed active.
MaterializeLoadedBins ==
    (last_launch.called /\ ~last_launch.panicked) =>
        LET loaded == SelectSeq(last_launch.packed_bins, LAMBDA bin : bin.orders /= <<>>)
        IN /\ last_launch.returned =
                [i \in 1..Len(loaded) |->
                    [launch_time |-> last_launch.time, orders |-> loaded[i].orders]]
           /\ Len(active_flights) =
                last_launch.active_after_landing + Len(last_launch.returned)
           /\ \A i \in 1..Len(last_launch.returned) :
                active_flights[last_launch.active_after_landing + i]
                    = last_launch.returned[i]

\* C28: launch_flights(t) removes from the active set exactly the flights
\* with end_time <= t, end_time being launch_time + floor(total distance /
\* carrier_speed_mps); the others stay, unchanged and in the same order, at
\* the head of the active set; landing takes no order off the pending
\* queue (the orders that left it are those the pass examined).
LandStep ==
    [][last_launch'.called =>
        LET t == last_launch'.time
            stays(flight) ==
                flight.launch_time + (total_distance(flight) \div carrier_speed_mps) > t
            kept == SelectSeq(active_flights, stays)
        IN /\ last_launch'.active_after_landing = Len(kept)
           /\ SubSeq(active_flights', 1, Len(kept)) = kept
           /\ Len(active_flights') = Len(kept) + Len(last_launch'.returned)
           /\ ids_of(unfulfilled_orders) \ ids_of(unfulfilled_orders')
                = ids_of(last_launch'.examined)]_vars

\* two orders flown apart at 0; the call at 40 lands the short flight and
\* keeps the long one, and launches nothing
LandStepWitness ==
    /\ last_launch.called
    /\ last_launch.time = 40
    /\ last_launch.active_after_landing = 1
    /\ last_launch.returned = <<>>
    /\ Cardinality(DOMAIN flown) = 2
    /\ Len(active_flights) = 1
    /\ active_flights[1].launch_time = 0
    /\ Len(active_flights[1].orders) = 1

\* the tick loop has handled the event of tick current_time
tick_handled == ticks > 0 /\ pc \in {"ticking", "panicked"}

\* C29 (first half): during a run launch_flights(t) is called at every
\* tick t with t mod 60 = 0 and at no other tick, with t as its argument,
\* whether or not an order is due or any order remains.
LaunchAtEveryLaunchTick ==
    tick_handled =>
        /\ last_launch.called <=> (current_time % 60 = 0)
        /\ last_launch.called => last_launch.time = current_time

\* C29: launch_flights(t) is called at every tick t with t mod 60 = 0 and
\* at no other tick, and every order whose placement time equals a launch
\* tick has been queued before that tick's launch_flights call.
LaunchTicks ==
    /\ LaunchAtEveryLaunchTick
    /\ (tick_handled /\ last_launch.called) =>
            \A id \in 1..Len(orders) :
                orders[id].time = current_time => id \in queued

\* the configured speed allows snapshots, and tick current_time is one of
\* theirs
snapshot_tick ==
    /\ ticks > 0
    /\ pc = "ticking"
    /\ current_time % update_interval_seconds(speed) = 0

\* C30: every snapshot emitted at tick t carries time = t, the configured
\* speed and the active flights as they are after the event of tick t was
\* handled; a snapshot emitted on a launch tick contains the flights
\* launched at that tick; a tick emits at most one snapshot, at the end of
\* the stream, and no emitted snapshot ever changes.
SnapshotContent ==
    /\ [](snapshot_tick =>
            /\ updates /= <<>>
            /\ Last(updates).time = current_time
            /\ Last(updates).speed = speed
            /\ Last(updates).flights = active_flights
            /\ last_launch.called =>
                    \A i \in 1..Len(last_launch.returned) :
                        in_seq(Last(updates).flights, last_launch.returned[i]))
    /\ [][/\ Len(updates') \in {Len(updates), Len(updates) + 1}
          /\ SubSeq(updates', 1, Len(updates)) = updates
          /\ Len(updates') > Len(updates) => Last(updates').time = current_time']_vars

\* a launch tick that is a snapshot tick and launched a flight, after an
\* earlier snapshot that does not have it
SnapshotContentWitness ==
    /\ snapshot_tick
    /\ last_launch.called
    /\ last_launch.returned /= <<>>
    /\ Len(updates) >= 2
    /\ Last(updates).time = current_time
    /\ in_seq(Last(updates).flights, last_launch.returned[1])
    /\ ~in_seq(updates[Len(updates) - 1].flights, last_launch.returned[1])

\* the length in whole metres of the legs 1..k of the route of a flight
\* (depot -> stop 1, ..., stop n -> depot)
legs_upto(flight, k) ==
    LET stop(j) == IF j = 0 \/ j > Len(flight.orders) THEN ORIGIN
                   ELSE destinations[flight.orders[j].destination]
        sum[j \in 0..k] ==
            IF j = 0 THEN 0 ELSE sum[j - 1] + distance_from_other(stop(j), stop(j - 1))
    IN sum[k]

\* the distance a flight has travelled at the second a client draws it
traveled_at(flight, millis) == ((millis \div 1000) - flight.launch_time) * CARRIER_SPEED_MPS

\* the first half of C31: while the distance travelled lies on leg i
\* (0-based) of a flight with n orders, current_position returns n - i
\* stops.
StopCountOnRoute ==
    [][View =>
        \A f \in 1..Len(carrier_positions') :
            LET flight == latest_update[1].flights[f]
                n == Len(flight.orders)
                traveled == traveled_at(flight, perceived_time_millis)
            IN \A i \in 0..n :
                (/\ traveled <= legs_upto(flight, i + 1)
                 /\ i > 0 => traveled > legs_upto(flight, i))
                    => carrier_positions'[f].stops = n - i]_vars

\* C31: for a flight with n orders, when the distance travelled falls on
\* leg i (0-based) current_position returns n - i remaining stops, and when
\* it exceeds the whole route current_position returns the origin (0, 0)
\* with zero stops remaining.
StopCount ==
    [][View =>
        \A f \in 1..Len(carrier_positions') :
            LET flight == latest_update[1].flights[f]
                n == Len(flight.orders)
                traveled == traveled_at(flight, perceived_time_millis)
                at == carrier_positions'[f]
            IN /\ \A i \in 0..n :
                    (/\ traveled <= legs_upto(flight, i + 1)
                     /\ i > 0 => traveled > legs_upto(flight, i))
                        => at.stops = n - i
               /\ traveled > legs_upto(flight, n + 1) =>
                    /\ at.east_cm = 0
                    /\ at.north_cm = 0
                    /\ ~at.nan
                    /\ at.stops = 0]_vars

\* a client has drawn a two-stop flight that is on its way back
StopCountWitness ==
    /\ latest_update /= <<>>
    /\ carrier_positions = view(latest_update[1], perceived_time_millis)
    /\ \E f \in 1..Len(carrier_positions) :
        /\ Len(latest_update[1].flights[f].orders) = 2
        /\ carrier_positions[f].stops = 0
        /\ carrier_positions[f].north_cm /= 0

\* C34: for every Speed s, Speed::from_i32(Speed::to_i32(s)) equals s: the
\* speed a client decodes from a snapshot is the speed the run was given.
SpeedSurvivesEncoding ==
    \A i \in 1..Len(stream) :
        /\ stream[i].speed = to_i32(updates[i].speed)
        /\ from_i32(stream[i].speed) = speed
        /\ latest_update /= <<>> => latest_update[1].speed = speed

\* C34 for the speeds that are not SlowMotion
SpeedSurvivesUnlessSlow ==
    speed.kind /= "SlowMotion" =>
        \A i \in 1..Len(stream) :
            /\ from_i32(stream[i].speed) = speed
            /\ latest_update /= <<>> => latest_update[1].speed = speed

\* the ids of the orders carried by a sequence of flights or bins
ids_in(loads) == UNION {ids_of(loads[i].orders) : i \in 1..Len(loads)}

\* C32 with "the orders placed into bins" for "the orders placed into the
\* new flights"
FrameOnPendingByBins ==
    [][(last_launch'.called /\ ~last_launch'.panicked) =>
        LET removed == ids_of(unfulfilled_orders) \ ids_of(unfulfilled_orders')
            placed == ids_in(last_launch'.packed_bins)
        IN /\ ids_of(unfulfilled_orders') \subseteq ids_of(unfulfilled_orders)
           /\ Len(unfulfilled_orders') = Len(unfulfilled_orders) - Cardinality(removed)
           /\ placed \subseteq removed
           /\ Cardinality(removed \ placed) <= 1
           /\ removed \ placed = ids_of(last_launch'.dropped)]_vars

\* C32: after launch_flights returns normally the pending queue holds the
\* orders that were pending before, minus the orders placed into the new
\* flights and minus at most one further order, the one being examined
\* when packing stopped; a call with no bin and a non-empty queue creates
\* no flight and removes exactly one pending order.
FrameOnPending ==
    [][(last_launch'.called /\ ~last_launch'.panicked) =>
        LET removed == ids_of(unfulfilled_orders) \ ids_of(unfulfilled_orders')
            placed == ids_in(last_launch'.returned)
        IN /\ ids_of(unfulfilled_orders') \subseteq ids_of(unfulfilled_orders)
           /\ Len(unfulfilled_orders') = Len(unfulfilled_orders) - Cardinality(removed)
           /\ placed \subseteq removed
           /\ Cardinality(removed \ placed) <= 1
           /\ removed \ placed = ids_of(last_launch'.dropped)
           /\ (last_launch'.bins = 0 /\ unfulfilled_orders /= <<>>) =>
                /\ last_launch'.returned = <<>>
                /\ Cardinality(removed) = 1]_vars

\* C35: active_flights.len() <= num_carriers whenever available_carriers
\* is computed, and every bin's distance_allocated <= carrier_range_m
\* whenever eligibility is tested, so neither unsigned subtraction goes
\* below zero.
NoUnsignedUnderflow ==
    /\ Len(active_flights) <= num_carriers
    /\ last_launch.called =>
        /\ num_carriers - last_launch.active_after_landing >= 0
        /\ \A k \in 1..Len(last_launch.steps) :
            \A b \in 1..Len(last_launch.steps[k].bins) :
                carrier_range_m - last_launch.steps[k].bins[b].distance_allocated >= 0
        /\ \A b \in 1..Len(last_launch.packed_bins) :
                carrier_range_m - last_launch.packed_bins[b].distance_allocated >= 0

\* every carrier is in the air after a call that tested, and refused, a
\* bin that already had part of its range allocated
NoUnsignedUnderflowWitness ==
    /\ last_launch.called
    /\ Len(active_flights) = num_carriers
    /\ \E k \in 1..Len(last_launch.steps) :
        /\ last_launch.steps[k].chosen = 0
        /\ \E b \in 1..Len(last_launch.steps[k].bins) :
            /\ last_launch.steps[k].bins[b].distance_allocated > 0
            /\ Len(last_launch.steps[k].bins[b].orders) < max_orders_per_carrier

\* every flight of the active set and of the snapshots sent so far
flights_seen ==
    {active_flights[i] : i \in 1..Len(active_flights)}
        \cup UNION {{updates[u].flights[i] : i \in 1..Len(updates[u].flights)} :
                        u \in 1..Len(updates)}

\* C33: in every run, every flight that appears in the active set or in a
\* snapshot has a launch_time that is a multiple of 60, lies between the
\* time of the first order and the end of the day, and is not before the
\* placement time of any order the flight carries.
NoFlightBeforePlacement ==
    \A flight \in flights_seen :
        /\ flight.launch_time % 60 = 0
        /\ flight.launch_time <= SECONDS_PER_DAY
        /\ \A i \in 1..Len(orders) : \E j \in 1..Len(orders) :
                orders[j].time <= orders[i].time /\ orders[j].time <= flight.launch_time
        /\ \A k \in 1..Len(flight.orders) :
                flight.orders[k].time <= flight.launch_time

\* a snapshot shows a flight launched at 60 with an order placed at 59 and
\* an order placed at 60
NoFlightBeforePlacementWitness ==
    \E u \in 1..Len(updates) : \E i \in 1..Len(updates[u].flights) :
        LET flight == updates[u].flights[i]
        IN /\ flight.launch_time = 60
           /\ Len(flight.orders) = 2
           /\ \E k \in 1..2 : flight.orders[k].time = 59
           /\ \E k \in 1..2 : flight.orders[k].time = 60

====
